---- MODULE Spec2Model ----
(***************************************************************************)
(* Picture-Docker (src/web-picture/app/picture.py): the images table, the  *)
(* media and trash directories, and the store / delete handlers.           *)
(*                                                                         *)
(* Strings are sequences of tokens: a token is a maximal piece of text     *)
(* between separators, and each separator ("/", ".", "-", and the "x" of a *)
(* size label) is a token of its own: "2026/12/md5_1-576x150.jpg" is       *)
(* <<"2026","/","12","/","md5_1","-","576","x","150",".","jpg">>.          *)
(* Paths of the media directory are relative to upload_dir, names of the   *)
(* trash directory are relative to trash_dir.                              *)
(*                                                                         *)
(* The handlers are coroutines of one asyncio event loop.  After its last  *)
(* await (picture.py:244 for store, :277 for delete) a handler runs to its *)
(* return without yielding, so at most one handler body is in progress:    *)
(* that is `task`.  The body is cut into steps at the calls that touch the *)
(* disk or the database, which are the places where it can raise.          *)
(***************************************************************************)
EXTENDS Integers, Sequences, FiniteSets, TLC

VARIABLES
    images,     \* rows of the table `images` (picture.py:61-67)
    media,      \* files under upload_dir, each [path, data]
    trash,      \* files under trash_dir, each [name, data]
    task,       \* the handler body in progress and its local variables
    response,   \* outcome of the last operation
    nextUuid,   \* uuid.uuid4(): index of the next value it returns
    clock,      \* months elapsed since Epoch (time.strftime)
    faults,     \* storage errors raised so far
    removals,   \* files removed by hand from upload_dir so far
    seen,       \* history: every uuid that has been in a row
    written,    \* history: every file an ingestion wrote, [path, data]
    requests    \* delete requests accepted by the server, each with the
                \* position and the local variables of its coroutine

vars == <<images, media, trash, task, response, nextUuid, clock, faults,
          removals, seen, written, requests>>

----------------------------------------------------------------------------
(* Bounds of the model *)

MaxUploads == 2

MaxFaults == 1

MaxTicks == 1

MaxRemovals == 2

MaxRowId == 2

MaxSpread == 3

MaxRequests == 2

(* Inputs *)

Mimes == {"image/jpeg", "image/jpg", "image/png", "image/gif", "text/html"}

Filenames ==
    { <<"a", ".", "JPG">>,
      <<"b", ".", "tar", ".", "png">>,
      <<"c", ".", "jpg", ".", "exe">>,
      <<"noext">> }

\* decoded size of the uploaded bytes; w = 0 stands for bytes PIL cannot decode
Pictures ==
    { [w |-> 1600, h |-> 1200], [w |-> 100, h |-> 100], [w |-> 1200, h |-> 800],
      [w |-> 577, h |-> 150], [w |-> 151, h |-> 151], [w |-> 150, h |-> 151],
      [w |-> 0, h |-> 0] }

\* every content type with every filename, and every picture under the
\* filenames that pass the checks
Uploads ==
    {u \in [content_type : Mimes, filename : Filenames, picture : Pictures] :
        \/ u.picture = [w |-> 100, h |-> 100]
        \/ /\ u.content_type = "image/jpeg"
           /\ u.filename \in {<<"a", ".", "JPG">>, <<"b", ".", "tar", ".", "png">>}}

\* year and month of the query of /admin/explorer, after int(); 0: not given
ExplorerQueries ==
    { [year |-> 0, month |-> 0], [year |-> 2026, month |-> 0],
      [year |-> 2026, month |-> 12], [year |-> 2027, month |-> 1] }

RepoUuids == {1, 2}

RepoFilenames == {<<"a", ".", "JPG">>, <<"z", ".", "gif">>}

RepoPaths ==
    { <<"2026", "/", "12", "/", "md5_1", ".", "jpg">>,
      <<"2027", "/", "01", "/", "md5_2", ".", "gif">> }

\* arguments of select_by_path: prefixes as the explorer passes them, and
\* texts with the characters LIKE reads as wildcards or folds
RepoPathLikes ==
    { <<>>, <<"2026">>, <<"2026", "/", "12">>, <<"2027", "/">>, <<"2028">>,
      <<"2026", "_", "12">>, <<"%", "/", "01">>,
      <<"2026", "/", "12", "/", "MD5_1">> }

RepoThumbnails == {<<>>, <<<<"150", "x", "150">>>>}

\* the month the service starts in: December, so that one tick crosses the year
Epoch == [year |-> 2026, month |-> 12]

----------------------------------------------------------------------------
(* String helpers *)

RECURSIVE LastIndexOf(_, _)
LastIndexOf(s, tok) ==
    IF s = <<>> THEN 0
    ELSE IF s[Len(s)] = tok THEN Len(s)
    ELSE LastIndexOf(SubSeq(s, 1, Len(s) - 1), tok)

\* str.lower() on a token
Lower(tok) ==
    CASE tok = "JPG" -> "jpg"
      [] tok = "PNG" -> "png"
      [] tok = "GIF" -> "gif"
      [] tok = "JPEG" -> "jpeg"
      [] tok = "MD5_1" -> "md5_1"
      [] OTHER -> tok

\* int() of a token of digits
IntOf(tok) ==
    CASE tok = "01" -> 1
      [] tok = "12" -> 12
      [] tok = "2026" -> 2026
      [] tok = "2027" -> 2027
      [] tok = "2028" -> 2028

\* f"0000{year}"[-4:] of a year of four digits
Pad4(year) == ToString(year)

\* f"00{month}"[-2:]
Pad2(month) == IF month < 10 THEN "0" \o ToString(month) ELSE ToString(month)

\* re.match(r'^[0-9]{4}/[0-9]{2}/.*$', path)
PathHasBucket(path) ==
    /\ Len(path) >= 4
    /\ path[1] \in {"2026", "2027", "2028"}
    /\ path[2] = "/"
    /\ path[3] \in {"01", "12"}
    /\ path[4] = "/"

\* sorted(keys)
RECURSIVE Sorted(_)
Sorted(keys) ==
    IF keys = {} THEN <<>>
    ELSE LET k == CHOOSE x \in keys : \A y \in keys : x <= y
         IN  <<k>> \o Sorted(keys \ {k})

\* upload.filename.split('.')[-1].lower()
LastExtension(filename) ==
    LET d == LastIndexOf(filename, ".")
        e == SubSeq(filename, d + 1, Len(filename))
    IN  [i \in 1..Len(e) |-> Lower(e[i])]

\* os.path.splitext: <<root, extension>>, the extension keeps its dot
SplitExt(p) ==
    LET d == LastIndexOf(p, ".")
        s == LastIndexOf(p, "/")
    IN  IF d > s + 1 THEN <<SubSeq(p, 1, d - 1), SubSeq(p, d, Len(p))>>
        ELSE <<p, <<>>>>

\* os.path.basename
Basename(p) == SubSeq(p, LastIndexOf(p, "/") + 1, Len(p))

\* os.path.join of two relative paths
Join(a, b) == a \o <<"/">> \o b

\* str.lstrip('.')
RECURSIVE LStripDot(_)
LStripDot(e) ==
    IF e # <<>> /\ Head(e) = "." THEN LStripDot(Tail(e)) ELSE e

\* f"{a}x{b}"
SizeLabel(a, b) == <<ToString(a), "x", ToString(b)>>

\* f"{root}-{thumbnail}.{extension.lstrip('.')}"
ThumbnailName(root, thumbnail, extension) ==
    root \o <<"-">> \o thumbnail \o <<".">> \o LStripDot(extension)

\* json.dumps / json.loads of a list of strings
JsonDumps(list) == [json |-> list]

JsonLoads(text) == text.json

\* hashlib.md5(image_uuid.bytes).hexdigest(): one digest per uuid
Md5Hex(u) == "md5_" \o ToString(u)

\* time.strftime('%Y') and time.strftime('%m')
StrftimeY(c) == ToString(Epoch.year + ((Epoch.month - 1 + c) \div 12))

StrftimeM(c) ==
    LET m == ((Epoch.month - 1 + c) % 12) + 1
    IN  IF m < 10 THEN "0" \o ToString(m) ELSE ToString(m)

----------------------------------------------------------------------------
(* Files *)

IsFile(dir, p) == \E f \in dir : f.path = p

FileAt(dir, p) == CHOOSE f \in dir : f.path = p

\* open(p, 'wb') + write, or image.save(p): replaces what is at p
WriteFile(dir, p, data) ==
    {f \in dir : f.path # p} \cup {[path |-> p, data |-> data]}

\* os.remove in place of the move: the file leaves media and reaches no trash
ShutilMoveErase(m, t, p) ==
    IF ~IsFile(m, p) THEN [raised |-> TRUE, media |-> m, trash |-> t]
    ELSE [raised |-> FALSE, media |-> m \ {FileAt(m, p)}, trash |-> t]

\* shutil.move(upload_dir/p, trash_dir/basename(p)): a rename, which replaces
\* a file of that name in the trash; raises when the source is missing.
\* Both directories are taken to be on one filesystem (os.rename is atomic).
ShutilMove(m, t, p) ==
    IF ~IsFile(m, p) THEN [raised |-> TRUE, media |-> m, trash |-> t]
    ELSE LET f == FileAt(m, p)
             n == Basename(p)
         IN  [raised |-> FALSE,
              media |-> m \ {f},
              trash |-> {g \in t : g.name # n} \cup {[name |-> n, data |-> f.data]}]

\* the loop body without its os.path.isfile test
DeleteLoopBodyNoCheck(m, t, filepath) ==
    LET f == IF IsFile(m, filepath) THEN {FileAt(m, filepath)} ELSE {}
        n == Basename(filepath)
    IN  IF f = {} THEN [raised |-> TRUE, media |-> m, trash |-> t]
        ELSE [raised |-> FALSE,
              media |-> m \ f,
              trash |-> {g \in t : g.name # n}
                          \cup {[name |-> n, data |-> g.data] : g \in f}]

\* body of the loop of handle_admin_delete
DeleteLoopBody(m, t, filepath) ==
    IF IsFile(m, filepath) THEN ShutilMove(m, t, filepath)
    ELSE [raised |-> FALSE, media |-> m, trash |-> t]

----------------------------------------------------------------------------
(* class Database *)

\* INTEGER PRIMARY KEY: the largest rowid in the table plus one
NextId(rows) ==
    IF rows = {} THEN 1
    ELSE (CHOOSE i \in {r.id : r \in rows} : \A r \in rows : r.id <= i) + 1

\* the SELECT without its WHERE clause: the first row of the table
SelectByUuidNoWhere(rows, image_uuid) ==
    IF rows = {} THEN <<>>
    ELSE <<CHOOSE r \in rows : \A q \in rows : r.id <= q.id>>

\* <<>> is None; LIMIT 1 of a scan in rowid order
SelectByUuid(rows, image_uuid) ==
    LET hits == {r \in rows : r.uuid = image_uuid}
    IN  IF hits = {} THEN <<>>
        ELSE <<CHOOSE r \in hits : \A q \in hits : r.id <= q.id>>

\* the tokens of paths in ascending order of their bytes (the BINARY
\* collation of ORDER BY); a separator sorts before every other token
TokenOrder ==
    <<"-", ".", "/", "01", "12", "2026", "2027", "gif", "jpg", "md5_1", "md5_2",
      "md5_3", "png">>

TokenRank(tok) == CHOOSE i \in 1..Len(TokenOrder) : TokenOrder[i] = tok

\* a < b as memcmp orders the two texts
RECURSIVE PathLess(_, _)
PathLess(a, b) ==
    IF b = <<>> THEN FALSE
    ELSE IF a = <<>> THEN TRUE
    ELSE IF Head(a) = Head(b) THEN PathLess(Tail(a), Tail(b))
    ELSE TokenRank(Head(a)) < TokenRank(Head(b))

\* the tokens of one character
OneChar == {"-", ".", "/", "x"}

\* text LIKE pattern: "%" stands for any run of characters, "_" for any one
\* character, and ASCII letters match whatever their case
RECURSIVE Like(_, _)
Like(text, pattern) ==
    IF pattern = <<>> THEN text = <<>>
    ELSE IF Head(pattern) = "%"
      THEN \/ Like(text, Tail(pattern))
           \/ text # <<>> /\ Like(Tail(text), pattern)
    ELSE IF text = <<>> THEN FALSE
    ELSE IF Head(pattern) = "_"
      THEN Head(text) \in OneChar /\ Like(Tail(text), Tail(pattern))
    ELSE Lower(Head(text)) = Lower(Head(pattern)) /\ Like(Tail(text), Tail(pattern))

\* the rows in ascending order of path; rows of equal path in any order
OrderedByPath(rows) ==
    {out \in [1..Cardinality(rows) -> rows] :
        /\ \A i, j \in DOMAIN out : i # j => out[i] # out[j]
        /\ \A i, j \in DOMAIN out : i < j => ~PathLess(out[j].path, out[i].path)}

\* the same in ascending order of id, as a SELECT with no ORDER BY lists them
OrderedById(rows) ==
    {out \in [1..Cardinality(rows) -> rows] :
        \A i, j \in DOMAIN out : i < j => out[i].id < out[j].id}

\* select_by_path with its ORDER BY left out
SelectByPathUnordered(rows, path_like) ==
    OrderedById({r \in rows : Like(r.path, path_like \o <<"%">>)})

\* SELECT * FROM images WHERE path LIKE :path_like || '%' ORDER BY path:
\* every list the query may return
SelectByPath(rows, path_like) ==
    OrderedByPath({r \in rows : Like(r.path, path_like \o <<"%">>)})

DbInsert(rows, image_uuid, filename, path, thumbnails) ==
    rows \cup {[id |-> NextId(rows), uuid |-> image_uuid, filename |-> filename,
                path |-> path, thumbnails |-> JsonDumps(thumbnails)]}

\* the UPDATE without its WHERE clause
DbUpdateNoWhere(rows, image_uuid, filename, path, thumbnails) ==
    {[r EXCEPT !.filename = filename, !.path = path,
               !.thumbnails = JsonDumps(thumbnails)] : r \in rows}

DbUpdate(rows, image_uuid, filename, path, thumbnails) ==
    {IF r.uuid = image_uuid
        THEN [r EXCEPT !.filename = filename, !.path = path,
                       !.thumbnails = JsonDumps(thumbnails)]
        ELSE r : r \in rows}

DbDelete(rows, image_uuid) == {r \in rows : r.uuid # image_uuid}

----------------------------------------------------------------------------
(* Derivative generator *)

Square == 150

\* for width in [1200, 992, 768, 576]
TargetWidths == <<1200, 992, 768, 576>>

Min(a, b) == IF a < b THEN a ELSE b

\* the same with the file named height x width
ImageResizeSwapped(image, path, root, extension, new_width) ==
    LET new_height == (new_width * image.h) \div image.w
        label == SizeLabel(new_width, new_height)
    IN  [label |-> label,
         path |-> Join(path, ThumbnailName(root, SizeLabel(new_height, new_width),
                                           extension)),
         w |-> new_width, h |-> new_height]

\* image_resize: the file it saves and the label it returns.
\* int(new_width * image.height / image.width) truncates a positive quotient.
ImageResize(image, path, root, extension, new_width) ==
    LET new_height == (new_width * image.h) \div image.w
        label == SizeLabel(new_width, new_height)
    IN  [label |-> label,
         path |-> Join(path, ThumbnailName(root, label, extension)),
         w |-> new_width, h |-> new_height]

\* the same with floor on both sides of the crop
ImageThumbnailFloorBoth(image, path, root, extension, square) ==
    LET width == image.w
        height == image.h
        box == IF width < height
                 THEN LET cropped == height - width
                      IN  <<0, cropped \div 2, width, height - (cropped \div 2)>>
               ELSE IF width > height
                 THEN LET cropped == width - height
                      IN  <<cropped \div 2, 0, width - (cropped \div 2), height>>
               ELSE <<0, 0, width, height>>
        label == SizeLabel(square, square)
    IN  [label |-> label,
         path |-> Join(path, ThumbnailName(root, label, extension)),
         box |-> box,
         w |-> Min(square, box[3] - box[1]), h |-> Min(square, box[4] - box[2])]

\* image_thumbnail: the crop box (left, upper, right, lower), the file it
\* saves and the label it returns.  Image.thumbnail never enlarges.
ImageThumbnail(image, path, root, extension, square) ==
    LET width == image.w
        height == image.h
        box == IF width < height
                 THEN LET cropped == height - width
                      IN  <<0, cropped \div 2, width, height - ((cropped + 1) \div 2)>>
               ELSE IF width > height
                 THEN LET cropped == width - height
                      IN  <<cropped \div 2, 0, width - ((cropped + 1) \div 2), height>>
               ELSE <<0, 0, width, height>>
        label == SizeLabel(square, square)
    IN  [label |-> label,
         path |-> Join(path, ThumbnailName(root, label, extension)),
         box |-> box,
         w |-> Min(square, box[3] - box[1]), h |-> Min(square, box[4] - box[2])]

----------------------------------------------------------------------------
(* Requests *)

Idle == [pc |-> "idle"]

\* status 0: the handler has not returned yet
Response(op, status, image_uuid) == [op |-> op, status |-> status, uuid |-> image_uuid]

\* upload.content_type not in (...)
ContentTypeRejected(upload) ==
    upload.content_type \notin {"image/jpeg", "image/jpg", "image/png", "image/gif"}

\* the extension taken after the first dot, split('.')[1], instead of the last
ExtensionRejectedFirstDot(upload) ==
    LET d == LastIndexOf(upload.filename, ".")
        parts == SelectSeq(upload.filename, LAMBDA tok : tok # ".")
    IN  (IF d = 0 THEN <<>> ELSE <<Lower(parts[2])>>)
            \notin {<<"jpeg">>, <<"jpg">>, <<"png">>, <<"gif">>}

\* upload.filename.split('.')[-1].lower() not in (...)
ExtensionRejected(upload) ==
    LastExtension(upload.filename) \notin {<<"jpeg">>, <<"jpg">>, <<"png">>, <<"gif">>}

\* one uuid drawn at import time and used for every upload
Uuid4Once(n) == 1

\* uuid.uuid4(): a value it has not returned before
Uuid4(n) == n

\* f"{md5}.{ext}"
StoreFilename(image_uuid, upload) ==
    <<Md5Hex(image_uuid), ".">> \o LastExtension(upload.filename)

\* os.path.join(time.strftime('%Y'), time.strftime('%m'))
StorePath(c) == Join(<<StrftimeY(c)>>, <<StrftimeM(c)>>)

FileData(image_uuid, w, h, whole) ==
    [uuid |-> image_uuid, w |-> w, h |-> h, whole |-> whole]

Raise500(op, image_uuid) ==
    /\ task' = Idle
    /\ response' = Response(op, 500, image_uuid)

Fault ==
    /\ faults < MaxFaults
    /\ faults' = faults + 1

----------------------------------------------------------------------------
(* handle_admin_store, picture.py:241-272 *)

\* lines 246-260: the checks, the identity, the write of the original
HandleAdminStore(upload) ==
    /\ task.pc = "idle"
    /\ \/ /\ ContentTypeRejected(upload)
          /\ response' = Response("store", 400, 0)
          /\ UNCHANGED <<images, media, trash, task, nextUuid, clock, faults,
                         removals, seen, written>>
       \/ /\ ~ContentTypeRejected(upload)
          /\ ExtensionRejected(upload)
          /\ response' = Response("store", 400, 0)
          /\ UNCHANGED <<images, media, trash, task, nextUuid, clock, faults,
                         removals, seen, written>>
       \/ /\ ~ContentTypeRejected(upload)
          /\ ~ExtensionRejected(upload)
          /\ nextUuid <= MaxUploads
          /\ LET image_uuid == Uuid4(nextUuid)
                 filename == StoreFilename(image_uuid, upload)
                 path == StorePath(clock)
                 original == Join(path, filename)
                 data == FileData(image_uuid, upload.picture.w, upload.picture.h, TRUE)
             IN  /\ nextUuid' = nextUuid + 1
                 /\ \/ /\ media' = WriteFile(media, original, data)
                       /\ written' = written \cup {[path |-> original, data |-> data]}
                       /\ task' = [pc |-> "open", image_uuid |-> image_uuid,
                                   upload_filename |-> upload.filename,
                                   path |-> path, filename |-> filename]
                       /\ response' = Response("store", 0, image_uuid)
                       /\ UNCHANGED faults
                    \* makedirs or open raises: nothing is written
                    \/ /\ Fault
                       /\ Raise500("store", image_uuid)
                       /\ UNCHANGED <<media, written>>
                    \* write raises: a truncated original stays
                    \/ /\ Fault
                       /\ Raise500("store", image_uuid)
                       /\ LET part == [data EXCEPT !.whole = FALSE]
                          IN  /\ media' = WriteFile(media, original, part)
                              /\ written' = written \cup {[path |-> original, data |-> part]}
          /\ UNCHANGED <<images, trash, clock, removals, seen>>
    /\ UNCHANGED requests

\* the same with the error of PIL.Image.open passed over
StoreOpenPass ==
    /\ task.pc = "open"
    /\ LET original == Join(task.path, task.filename)
           data == FileAt(media, original).data
           split == SplitExt(Basename(original))
       IN  /\ task' = [pc |-> "resize", image_uuid |-> task.image_uuid,
                       upload_filename |-> task.upload_filename,
                       path |-> task.path, filename |-> task.filename,
                       image |-> [w |-> data.w, h |-> data.h],
                       root |-> split[1], extension |-> split[2],
                       widths |-> TargetWidths, thumbnails |-> <<>>]
           /\ UNCHANGED response
    /\ UNCHANGED <<images, media, trash, nextUuid, clock, faults, removals, seen,
                   written>>
    /\ UNCHANGED requests

\* lines 262-264: PIL.Image.open of the written original
StoreOpen ==
    /\ task.pc = "open"
    /\ LET original == Join(task.path, task.filename)
           data == FileAt(media, original).data
           split == SplitExt(Basename(original))
       IN  IF data.w = 0
             THEN Raise500("store", task.image_uuid)
             ELSE /\ task' = [pc |-> "resize", image_uuid |-> task.image_uuid,
                              upload_filename |-> task.upload_filename,
                              path |-> task.path, filename |-> task.filename,
                              image |-> [w |-> data.w, h |-> data.h],
                              root |-> split[1], extension |-> split[2],
                              widths |-> TargetWidths, thumbnails |-> <<>>]
                  /\ UNCHANGED response
    /\ UNCHANGED <<images, media, trash, nextUuid, clock, faults, removals, seen,
                   written>>
    /\ UNCHANGED requests

\* the error of image.save swallowed: the handler goes on whatever was saved
SaveDerivativeSwallow(d, next) ==
    LET data == FileData(task.image_uuid, d.w, d.h, TRUE)
        part == [data EXCEPT !.whole = FALSE]
    IN  /\ task' = next
        /\ UNCHANGED response
        /\ \/ /\ media' = WriteFile(media, d.path, data)
              /\ written' = written \cup {[path |-> d.path, data |-> data]}
              /\ UNCHANGED faults
           \/ /\ Fault
              /\ UNCHANGED <<media, written>>
           \/ /\ Fault
              /\ media' = WriteFile(media, d.path, part)
              /\ written' = written \cup {[path |-> d.path, data |-> part]}

\* image.save of a derivative d: saved whole, and the handler goes on as
\* `next`; or the save raises, leaving nothing or a truncated file
SaveDerivative(d, next) ==
    LET data == FileData(task.image_uuid, d.w, d.h, TRUE)
        part == [data EXCEPT !.whole = FALSE]
    IN  \/ /\ media' = WriteFile(media, d.path, data)
           /\ written' = written \cup {[path |-> d.path, data |-> data]}
           /\ task' = next
           /\ UNCHANGED <<response, faults>>
        \/ /\ Fault
           /\ Raise500("store", task.image_uuid)
           /\ UNCHANGED <<media, written>>
        \/ /\ Fault
           /\ Raise500("store", task.image_uuid)
           /\ media' = WriteFile(media, d.path, part)
           /\ written' = written \cup {[path |-> d.path, data |-> part]}

\* image.width >= width
WiderOrEqual(image, width) == image.w >= width

\* image.width > width
WiderThan(image, width) == image.w > width

\* lines 265-267: one iteration of the loop over the target widths
StoreResize ==
    /\ task.pc = "resize"
    /\ task.widths # <<>>
    /\ LET width == Head(task.widths)
           d == ImageResize(task.image, task.path, task.root, task.extension, width)
       IN  IF WiderThan(task.image, width)
             THEN SaveDerivative(d, [task EXCEPT !.widths = Tail(task.widths),
                                                 !.thumbnails = Append(task.thumbnails, d.label)])
             ELSE /\ task' = [task EXCEPT !.widths = Tail(task.widths)]
                  /\ UNCHANGED <<media, written, response, faults>>
    /\ UNCHANGED <<images, trash, nextUuid, clock, removals, seen>>
    /\ UNCHANGED requests

\* lines 268-269: the square thumbnail
StoreThumbnail ==
    /\ task.pc = "resize"
    /\ task.widths = <<>>
    /\ LET d == ImageThumbnail(task.image, task.path, task.root, task.extension, Square)
       IN  IF task.image.w > Square /\ task.image.h > Square
             THEN SaveDerivative(d, [task EXCEPT !.pc = "insert",
                                                 !.thumbnails = Append(task.thumbnails, d.label)])
             ELSE /\ task' = [task EXCEPT !.pc = "insert"]
                  /\ UNCHANGED <<media, written, response, faults>>
    /\ UNCHANGED <<images, trash, nextUuid, clock, removals, seen>>
    /\ UNCHANGED requests

\* lines 270-272: db.insert and the redirect; or sqlite raises
StoreInsert ==
    /\ task.pc = "insert"
    /\ \/ /\ images' = DbInsert(images, task.image_uuid, task.upload_filename,
                                 Join(task.path, task.filename), task.thumbnails)
          /\ seen' = seen \cup {task.image_uuid}
          /\ task' = Idle
          /\ response' = Response("store", 302, task.image_uuid)
          /\ UNCHANGED faults
       \/ /\ Fault
          /\ Raise500("store", task.image_uuid)
          /\ UNCHANGED <<images, seen>>
    /\ UNCHANGED <<media, trash, nextUuid, clock, removals, written>>
    /\ UNCHANGED requests

----------------------------------------------------------------------------
(* handle_admin_delete, picture.py:275-292 *)

\* the list without files.append(img.get('path'))
DeleteFilesNoOriginal(img) ==
    LET split == SplitExt(img.path)
        labels == JsonLoads(img.thumbnails)
    IN  [i \in 1..Len(labels) |-> ThumbnailName(split[1], labels[i], split[2])]

\* lines 283-285: the thumbnails of the row, then its original
DeleteFiles(img) ==
    LET split == SplitExt(img.path)
        labels == JsonLoads(img.thumbnails)
    IN  [i \in 1..Len(labels) |-> ThumbnailName(split[1], labels[i], split[2])]
        \o <<img.path>>

\* the same with db.delete ahead of the loop
HandleAdminDeleteRowFirst(image_uuid) ==
    /\ task.pc = "idle"
    /\ LET img == SelectByUuid(images, image_uuid)
       IN  IF img = <<>>
             THEN /\ response' = Response("delete", 404, image_uuid)
                  /\ UNCHANGED <<task, images>>
             ELSE /\ task' = [pc |-> "move", image_uuid |-> image_uuid,
                              files |-> DeleteFiles(img[1])]
                  /\ response' = Response("delete", 0, image_uuid)
                  /\ images' = DbDelete(images, image_uuid)
    /\ UNCHANGED <<media, trash, nextUuid, clock, faults, removals, seen,
                   written>>
    /\ UNCHANGED requests

\* lines 278-285
HandleAdminDelete(image_uuid) ==
    /\ task.pc = "idle"
    /\ LET img == SelectByUuid(images, image_uuid)
       IN  IF img = <<>>
             THEN /\ response' = Response("delete", 404, image_uuid)
                  /\ UNCHANGED task
             ELSE /\ task' = [pc |-> "move", image_uuid |-> image_uuid,
                              files |-> DeleteFiles(img[1])]
                  /\ response' = Response("delete", 0, image_uuid)
    /\ UNCHANGED <<images, media, trash, nextUuid, clock, faults, removals, seen,
                   written>>
    /\ UNCHANGED requests

\* lines 287-289: one iteration of the loop; shutil.move may raise
DeleteMove ==
    /\ task.pc = "move"
    /\ task.files # <<>>
    /\ LET out == DeleteLoopBody(media, trash, Head(task.files))
       IN  \/ /\ ~out.raised
              /\ media' = out.media
              /\ trash' = out.trash
              /\ task' = [task EXCEPT !.files = Tail(task.files)]
              /\ UNCHANGED <<response, faults>>
           \/ /\ out.raised
              /\ Raise500("delete", task.image_uuid)
              /\ UNCHANGED <<media, trash, faults>>
           \/ /\ out.media # media
              /\ Fault
              /\ Raise500("delete", task.image_uuid)
              /\ UNCHANGED <<media, trash>>
    /\ UNCHANGED <<images, nextUuid, clock, removals, seen, written>>
    /\ UNCHANGED requests

\* lines 290-292: db.delete and the redirect; or sqlite raises
DeleteRow ==
    /\ task.pc = "move"
    /\ task.files = <<>>
    /\ \/ /\ images' = DbDelete(images, task.image_uuid)
          /\ task' = Idle
          /\ response' = Response("delete", 302, task.image_uuid)
          /\ UNCHANGED faults
       \/ /\ Fault
          /\ Raise500("delete", task.image_uuid)
          /\ UNCHANGED images
    /\ UNCHANGED <<media, trash, nextUuid, clock, removals, seen, written>>
    /\ UNCHANGED requests

----------------------------------------------------------------------------
(* handle_image, picture.py:130-163 *)

\* lines 149-150: the derivatives handed to the template, each with its label
\* and the path its file should have
ImageThumbnails(img) ==
    LET split == SplitExt(img.path)
        labels == JsonLoads(img.thumbnails)
    IN  [i \in 1..Len(labels) |->
            [size |-> labels[i], path |-> ThumbnailName(split[1], labels[i], split[2])]]

\* the same with only the row looked for
ImageNotFoundRowOnly(img, files) == img = <<>>

\* line 135: no row, or the original of the row is not a file
ImageNotFound(img, files) == img = <<>> \/ ~IsFile(files, img[1].path)

\* lines 138-141: PIL.Image.open raises on a missing or undecodable file
ImageOpenFails(files, path) ==
    ~IsFile(files, path) \/ FileAt(files, path).data.w = 0

\* the handler has no await: it runs when the event loop is free
HandleImage(image_uuid) ==
    /\ task.pc = "idle"
    /\ LET img == SelectByUuid(images, image_uuid)
       IN  response' =
             IF ImageNotFound(img, media)
               THEN Response("image", 404, image_uuid)
             ELSE IF ImageOpenFails(media, img[1].path)
               THEN Response("image", 500, image_uuid)
             ELSE [op |-> "image", status |-> 200, uuid |-> image_uuid,
                   thumbnails |-> ImageThumbnails(img[1])]
    /\ UNCHANGED <<images, media, trash, task, nextUuid, clock, faults, removals,
                   seen, written>>
    /\ UNCHANGED requests

----------------------------------------------------------------------------
(* handle_admin_explorer, picture.py:192-238 *)

\* lines 205-210: a row as listed, with its stat if its original is a file
ExplorerImage(img) ==
    [uuid |-> img.uuid, path |-> img.path, stat |-> IsFile(media, img.path),
     thumbnails |-> ImageThumbnails(img)]

PathYear(path) == IntOf(path[1])

PathMonth(path) == IntOf(path[3])

\* lines 212-220 (by = "month") and 222-231 (by = "year"): the rows counted
\* by the month or the year of their path, keys ascending; a row counts if
\* its original is a file
ExplorerCounters(rows, by) ==
    LET key(path) == IF by = "year" THEN PathYear(path) ELSE PathMonth(path)
        name(k) == IF by = "year" THEN Pad4(k) ELSE Pad2(k)
        listed == {r \in rows : PathHasBucket(r.path)}
        keys == Sorted({key(r.path) : r \in listed})
    IN  [i \in 1..Len(keys) |->
            [name |-> name(keys[i]),
             counter |-> Cardinality({r \in listed : /\ key(r.path) = keys[i]
                                                     /\ IsFile(media, r.path)})]]

\* after the await of line 194 the handler runs to its return; the query
\* may return the rows of equal path in any order
HandleAdminExplorer(year, month) ==
    /\ task.pc = "idle"
    /\ IF year > 1970
         THEN IF 1 <= month /\ month <= 12
                THEN \E out \in SelectByPath(images, Join(<<Pad4(year)>>, <<Pad2(month)>>)) :
                        response' = [op |-> "explorer", status |-> 200,
                                     year |-> year, month |-> month,
                                     files |-> [i \in 1..Len(out) |-> ExplorerImage(out[i])]]
                ELSE \E out \in SelectByPath(images, <<Pad4(year)>>) :
                        response' = [op |-> "explorer", status |-> 200,
                                     year |-> year, month |-> 0,
                                     files |-> ExplorerCounters(
                                                 {out[i] : i \in 1..Len(out)},
                                                 "month")]
         ELSE \E out \in SelectByPath(images, <<>>) :
                 response' = [op |-> "explorer", status |-> 200,
                              year |-> 0, month |-> 0,
                              files |-> ExplorerCounters(
                                          {out[i] : i \in 1..Len(out)},
                                          "year")]
    /\ UNCHANGED <<images, media, trash, task, nextUuid, clock, faults, removals,
                   seen, written>>
    /\ UNCHANGED requests

----------------------------------------------------------------------------
(* handle_admin_delete, one coroutine per request, picture.py:275-292 *)

\* the requests whose handler is between its lookup and its return
Running == {q \in requests : q.pc = "move"}

\* the same with a suspension point in the body of the handler
MayRunAnyTime(q) == task.pc = "idle"

\* lines 278-292 have no await: a handler goes on, or starts its body, only
\* if no other handler is inside its body
MayRun(q) == task.pc = "idle" /\ Running \subseteq {q}

With(q, new) == (requests \ {q}) \cup {new}

\* line 277: the coroutine of a new request starts and is suspended at its
\* await; `row` records whether the table had a row of the uuid then
DeleteArrives(image_uuid) ==
    /\ task.pc = "idle"
    /\ Running = {}
    /\ Cardinality(requests) < MaxRequests
    /\ requests' = requests \cup
          {[id |-> Cardinality(requests) + 1, uuid |-> image_uuid, pc |-> "await",
            files |-> <<>>, status |-> 0, moved |-> {},
            row |-> SelectByUuid(images, image_uuid) # <<>>]}
    /\ UNCHANGED <<images, media, trash, task, response, nextUuid, clock, faults,
                   removals, seen, written>>

\* lines 278-285: the lookup, and the list of files
DeleteLooksUp(q) ==
    /\ q.pc = "await"
    /\ MayRun(q)
    /\ LET img == SelectByUuid(images, q.uuid)
       IN  requests' =
             IF img = <<>>
               THEN With(q, [q EXCEPT !.pc = "done", !.status = 404])
               ELSE With(q, [q EXCEPT !.pc = "move", !.files = DeleteFiles(img[1])])
    /\ UNCHANGED <<images, media, trash, task, response, nextUuid, clock, faults,
                   removals, seen, written>>

\* lines 287-289: one iteration of the loop
DeleteMoves(q) ==
    /\ q.pc = "move"
    /\ q.files # <<>>
    /\ MayRun(q)
    /\ LET out == DeleteLoopBody(media, trash, Head(q.files))
       IN  /\ ~out.raised
           /\ media' = out.media
           /\ trash' = out.trash
           /\ requests' =
                 With(q, [q EXCEPT !.files = Tail(q.files),
                                   !.moved = IF out.media # media
                                               THEN q.moved \cup {Head(q.files)}
                                               ELSE q.moved])
    /\ UNCHANGED <<images, task, response, nextUuid, clock, faults, removals,
                   seen, written>>

\* lines 290-292: db.delete and the redirect
DeleteRemovesRow(q) ==
    /\ q.pc = "move"
    /\ q.files = <<>>
    /\ MayRun(q)
    /\ images' = DbDelete(images, q.uuid)
    /\ requests' = With(q, [q EXCEPT !.pc = "done", !.status = 302])
    /\ UNCHANGED <<media, trash, task, response, nextUuid, clock, faults,
                   removals, seen, written>>

----------------------------------------------------------------------------
(* Environment *)

\* a month passes
Tick ==
    /\ task.pc = "idle"
    /\ clock < MaxTicks
    /\ clock' = clock + 1
    /\ UNCHANGED <<images, media, trash, task, response, nextUuid, faults,
                   removals, seen, written>>
    /\ UNCHANGED requests

\* somebody removes a file from upload_dir between two requests
ManualRemove(f) ==
    /\ task.pc = "idle"
    /\ removals < MaxRemovals
    /\ f \in media
    /\ media' = media \ {f}
    /\ removals' = removals + 1
    /\ UNCHANGED <<images, trash, task, response, nextUuid, clock, faults, seen,
                   written>>
    /\ UNCHANGED requests

----------------------------------------------------------------------------
(* The repository called directly *)

RepoInsert(image_uuid, filename, path, thumbnails) ==
    /\ NextId(images) <= MaxRowId
    /\ images' = DbInsert(images, image_uuid, filename, path, thumbnails)
    /\ seen' = seen \cup {image_uuid}
    /\ response' = Response("insert", 0, image_uuid)
    /\ UNCHANGED <<media, trash, task, nextUuid, clock, faults, removals, written>>
    /\ UNCHANGED requests

RepoUpdate(image_uuid, filename, path, thumbnails) ==
    /\ images' = DbUpdate(images, image_uuid, filename, path, thumbnails)
    /\ response' = Response("update", 0, image_uuid)
    /\ UNCHANGED <<media, trash, task, nextUuid, clock, faults, removals, seen,
                   written>>
    /\ UNCHANGED requests

RepoDelete(image_uuid) ==
    /\ images' = DbDelete(images, image_uuid)
    /\ response' = Response("delete", 0, image_uuid)
    /\ UNCHANGED <<media, trash, task, nextUuid, clock, faults, removals, seen,
                   written>>
    /\ UNCHANGED requests

RepoSelectByPath(path_like) ==
    /\ \E out \in SelectByPath(images, path_like) :
          response' = [op |-> "select_by_path", path_like |-> path_like, rows |-> out]
    /\ UNCHANGED <<images, media, trash, task, nextUuid, clock, faults, removals,
                   seen, written>>
    /\ UNCHANGED requests

----------------------------------------------------------------------------
(* image_resize and image_thumbnail called directly *)

\* sizes of the images passed in: around Square, around the smallest target
\* width, above the largest one, and 301 wide
ImageWidths ==
    {Square + i : i \in 0..MaxSpread} \cup {301}
        \cup {TargetWidths[4] + i : i \in 1..MaxSpread} \cup {TargetWidths[1] + 1}

ImageHeights == {Square + i : i \in 0..MaxSpread} \cup {433}

ImageSizes == {[w |-> w, h |-> h] : w \in ImageWidths, h \in ImageHeights}

CallImageResize(new_width) ==
    /\ task.pc = "call"
    /\ response' = [op |-> "image_resize", image |-> task.image,
                    new_width |-> new_width,
                    result |-> ImageResize(task.image, StorePath(0), <<Md5Hex(1)>>,
                                           <<".", "jpg">>, new_width)]
    /\ UNCHANGED <<images, media, trash, task, nextUuid, clock, faults, removals,
                   seen, written>>
    /\ UNCHANGED requests

CallImageThumbnail ==
    /\ task.pc = "call"
    /\ response' = [op |-> "image_thumbnail", image |-> task.image,
                    result |-> ImageThumbnail(task.image, StorePath(0), <<Md5Hex(1)>>,
                                              <<".", "jpg">>, Square)]
    /\ UNCHANGED <<images, media, trash, task, nextUuid, clock, faults, removals,
                   seen, written>>
    /\ UNCHANGED requests

----------------------------------------------------------------------------
(* Specifications *)

Init ==
    /\ images = {}
    /\ media = {}
    /\ trash = {}
    /\ task = Idle
    /\ response = Response("none", 0, 0)
    /\ nextUuid = 1
    /\ clock = 0
    /\ faults = 0
    /\ removals = 0
    /\ seen = {}
    /\ written = {}
    /\ requests = {}

Store ==
    \/ \E upload \in Uploads : HandleAdminStore(upload)
    \/ StoreOpen
    \/ StoreResize
    \/ StoreThumbnail
    \/ StoreInsert

Delete ==
    \/ \E image_uuid \in 1..(MaxUploads + 1) : HandleAdminDelete(image_uuid)
    \/ DeleteMove
    \/ DeleteRow

Next == Store \/ Delete \/ Tick

\* the service: uploads and deletes
Spec == Init /\ [][Next]_vars

NextIngest == Store \/ Tick

\* uploads only
SpecIngest == Init /\ [][NextIngest]_vars

NextRepo ==
    \/ \E u \in RepoUuids, f \in RepoFilenames, p \in RepoPaths, t \in RepoThumbnails :
          RepoInsert(u, f, p, t)
    \/ \E u \in RepoUuids, f \in RepoFilenames, p \in RepoPaths, t \in RepoThumbnails :
          RepoUpdate(u, f, p, t)
    \/ \E u \in RepoUuids : RepoDelete(u)
    \/ \E p \in RepoPathLikes : RepoSelectByPath(p)

\* the operations of class Database in any order
SpecRepo == Init /\ [][NextRepo]_vars

InitEnv ==
    /\ images = {}
    /\ media = {}
    /\ trash = {}
    /\ task = Idle
    /\ response = Response("none", 0, 0)
    /\ nextUuid = 1
    /\ clock = 0
    /\ faults = MaxFaults
    /\ removals = 0
    /\ seen = {}
    /\ written = {}
    /\ requests = {}

NextEnv == Store \/ Delete \/ \E f \in media : ManualRemove(f)

\* the service within one month and with no storage error, and files removed
\* by hand between requests
SpecEnv == InitEnv /\ [][NextEnv]_vars

Read ==
    \/ \E image_uuid \in 1..(MaxUploads + 1) : HandleImage(image_uuid)
    \/ \E q \in ExplorerQueries : HandleAdminExplorer(q.year, q.month)

NextRead == Store \/ Delete \/ Read \/ \E f \in media : ManualRemove(f)

\* the service of SpecEnv with its two reading handlers
SpecRead == InitEnv /\ [][NextRead]_vars

NextConc ==
    \/ Running = {} /\ \E upload \in Uploads : HandleAdminStore(upload)
    \/ StoreOpen
    \/ StoreResize
    \/ StoreThumbnail
    \/ StoreInsert
    \/ \E image_uuid \in 1..MaxUploads : DeleteArrives(image_uuid)
    \/ \E q \in requests : DeleteLooksUp(q)
    \/ \E q \in requests : DeleteMoves(q)
    \/ \E q \in requests : DeleteRemovesRow(q)

\* uploads, and delete requests that are suspended at their await together,
\* with no storage error
SpecConc == InitEnv /\ [][NextConc]_vars

NextRetry == Store \/ Delete

\* the service within one month; a handler that has started its body runs
\* on to its return, so the steps of a delete in progress are taken
SpecRetry ==
    Init /\ [][NextRetry]_vars /\ WF_vars(DeleteMove) /\ WF_vars(DeleteRow)

InitImage ==
    /\ images = {}
    /\ media = {}
    /\ trash = {}
    /\ task \in {[pc |-> "call", image |-> image] : image \in ImageSizes}
    /\ response = Response("none", 0, 0)
    /\ nextUuid = 1
    /\ clock = 0
    /\ faults = 0
    /\ removals = 0
    /\ seen = {}
    /\ written = {}
    /\ requests = {}

NextImage ==
    \/ \E i \in 1..Len(TargetWidths) : CallImageResize(TargetWidths[i])
    \/ CallImageThumbnail

\* the two derivative functions applied to images of any of ImageSizes
SpecImage == InitImage /\ [][NextImage]_vars

----------------------------------------------------------------------------
(* Properties *)

\* the original of a row and the derivatives its stored labels name
RecordPaths(r) ==
    LET split == SplitExt(r.path)
        labels == JsonLoads(r.thumbnails)
    IN  {r.path} \cup
        {split[1] \o <<"-">> \o labels[i] \o <<".">> \o LStripDot(split[2]) :
            i \in 1..Len(labels)}

\* the uploads that C1 is about
C1_RejectedUploads ==
    {upload \in Uploads :
        \/ upload.content_type
              \notin {"image/jpeg", "image/jpg", "image/png", "image/gif"}
        \/ LastExtension(upload.filename)
              \notin {<<"jpeg">>, <<"jpg">>, <<"png">>, <<"gif">>}}

\* C1: an upload whose content type is outside {image/jpeg, image/jpg,
\* image/png, image/gif}, or whose lower-cased text after the last dot of the
\* filename is outside {jpeg, jpg, png, gif}, is answered 400 and leaves the
\* images table, the media directory and the trash as they were.
C1_RejectedUploadChangesNothing ==
    [][\/ /\ response' = Response("store", 400, 0)
          /\ UNCHANGED <<images, media, trash, written>>
       \/ task.pc # "idle"      \* a later step of a handler, not a request
       \/ \A upload \in C1_RejectedUploads : ~HandleAdminStore(upload)]_vars

\* C1 witness: an upload was rejected while a record and its files exist
C1_Witness ==
    /\ response = Response("store", 400, 0)
    /\ images # {}
    /\ media # {}

\* C2: when an upload that passed the checks completes, the table holds
\* exactly one more row than before, the uuid of that row was in no earlier
\* row, and the original and every derivative the row names are files of the
\* media directory.
C2_CompletedUploadAddsOneRow ==
    [][(task.pc = "insert" /\ response'.status = 302)
          => \E r \in images' :
                /\ images' = images \cup {r}
                /\ Cardinality(images') = Cardinality(images) + 1
                /\ r.uuid = response'.uuid
                /\ r.uuid \notin seen
                /\ \A q \in images : q.uuid # r.uuid
                /\ \A p \in RecordPaths(r) : IsFile(media', p)]_vars

\* C2 witness: a second upload completed, the row of the first still there,
\* and its row names derivatives
C2_Witness ==
    /\ response = Response("store", 302, 2)
    /\ Cardinality(images) = 2
    /\ \E r \in images : r.uuid = 2 /\ Len(JsonLoads(r.thumbnails)) >= 4

\* C3: in every state of every sequence of uploads, failed and unfinished
\* ones included, each row of the table names an original and derivatives
\* that are all in the media directory, written whole.
C3_RowsHaveTheirFiles ==
    \A r \in images :
        \A p \in RecordPaths(r) :
            \E f \in media : f.path = p /\ f.data.whole

\* C3 witness: an upload failed after writing files, which no row names,
\* beside a complete record
C3_Witness ==
    /\ response.op = "store"
    /\ response.status = 500
    /\ \E r \in images : Len(JsonLoads(r.thumbnails)) >= 1
    /\ \E f, g \in media :
          /\ f # g
          /\ f.data.uuid = response.uuid
          /\ g.data.uuid = response.uuid
          /\ \A r \in images : f.path \notin RecordPaths(r) /\ g.path \notin RecordPaths(r)

\* a file of `written` as it lies in the trash
Trashed(f) == [name |-> Basename(f.path), data |-> f.data]

\* C4: a delete removes the row only when its loop over the original and the
\* derivatives of the record has ended; at that step the answer is the
\* redirect, no row of that uuid remains, no file the record names is in the
\* media directory, and each such file that was written is in the trash under
\* its basename.
C4_DeleteMovesFilesThenRow ==
    [][\A r \in images \ images' :
          /\ task.pc = "move"
          /\ task.files = <<>>
          /\ task.image_uuid = r.uuid
          /\ response' = Response("delete", 302, r.uuid)
          /\ \A q \in images' : q.uuid # r.uuid
          /\ \A p \in RecordPaths(r) : ~IsFile(media', p)
          /\ \A f \in written : f.path \in RecordPaths(r) => Trashed(f) \in trash']_vars

\* C4 witness: the delete of a record with five derivatives has completed
C4_Witness ==
    /\ response.op = "delete"
    /\ response.status = 302
    /\ \A r \in images : r.uuid # response.uuid
    /\ Cardinality({f \in trash : f.data.uuid = response.uuid}) = 6

\* C5: a delete of a uuid that no row has is answered 404 and moves no file,
\* changes neither trash nor table; so is a second delete of a deleted uuid.
C5_DeleteOfUnknownUuidChangesNothing ==
    [][\A image_uuid \in 1..(MaxUploads + 1) :
          ( /\ \A r \in images : r.uuid # image_uuid
            /\ HandleAdminDelete(image_uuid) )
          => /\ response' = Response("delete", 404, image_uuid)
             /\ UNCHANGED <<images, media, trash, task>>]_vars

\* C5 witness: uuid 1 was stored and deleted, another record is still
\* stored, and a further delete of uuid 1 was answered 404
C5_Witness ==
    /\ response = Response("delete", 404, 1)
    /\ 1 \in seen
    /\ \E f \in trash : f.data.uuid = 1
    /\ \E r \in images : r.uuid = 2
    /\ \E f \in media : f.data.uuid = 2

\* C6: a delete of a record goes through whatever files of it are missing
\* from the media directory: it starts on the full list of the record's
\* files, each iteration of its loop skips a missing file without error and
\* moves a present one to the trash, and after the loop the row is removed and
\* the answer is the redirect.
C6_MissingFilesAreSkipped ==
    [][/\ \A r \in images :
             HandleAdminDelete(r.uuid)
             => /\ task'.pc = "move"
                /\ {task'.files[i] : i \in 1..Len(task'.files)} = RecordPaths(r)
       /\ (task.pc = "move" /\ task.files # <<>>)
             => LET p == Head(task.files)
                IN  /\ task' = [task EXCEPT !.files = Tail(task.files)]
                    /\ UNCHANGED <<images, response>>
                    /\ IF IsFile(media, p)
                         THEN /\ ~IsFile(media', p)
                              /\ [name |-> Basename(p), data |-> FileAt(media, p).data]
                                    \in trash'
                         ELSE UNCHANGED <<media, trash>>
       /\ (task.pc = "move" /\ task.files = <<>>)
             => /\ response' = Response("delete", 302, task.image_uuid)
                /\ \A r \in images' : r.uuid # task.image_uuid
                /\ task' = Idle]_vars

\* C6 witness: a delete has completed for a record two of whose derivatives
\* had been removed by hand; its original and its other derivatives are in
\* the trash
C6_Witness ==
    LET mine == {f \in written : f.data.uuid = response.uuid}
        gone == {f \in mine : f \notin media /\ Trashed(f) \notin trash}
    IN  /\ response.op = "delete"
        /\ response.status = 302
        /\ \A r \in images : r.uuid # response.uuid
        /\ Cardinality(gone) = 2
        /\ \A f \in gone : \E i \in 1..Len(f.path) : f.path[i] = "-"
        /\ Cardinality({f \in mine : Trashed(f) \in trash}) >= 3

\* C7: every file an upload wrote is at all times either in the media
\* directory under its path or in the trash under its basename, with the
\* content it was written with, and never in both.
C7_WrittenFilesAreKept ==
    \A f \in written : (f \in media) # (Trashed(f) \in trash)

\* C7 witness: after uploads and a delete, files lie in the trash, files lie
\* in the media directory, and a truncated file of a failed upload is kept
C7_Witness ==
    /\ \E f \in written : Trashed(f) \in trash
    /\ \E f \in written : f \in media /\ f.data.whole
    /\ \E f \in written : ~f.data.whole
    /\ response.op = "delete"
    /\ response.status = 302

\* C8 as claimed: an update leaves the uuid, the path and the derivative list
\* of the row with the given uuid as they were, and every other row
\* unchanged.
C8_UpdateKeepsPathAndDerivatives ==
    [][\A u \in RepoUuids, fn \in RepoFilenames, p \in RepoPaths, t \in RepoThumbnails :
          RepoUpdate(u, fn, p, t)
          => \A r \in images :
                \E q \in images' :
                   /\ q.id = r.id
                   /\ q.uuid = r.uuid
                   /\ q.path = r.path
                   /\ q.thumbnails = r.thumbnails
                   /\ (r.uuid # u => q = r)]_vars

\* C8 amended: an update sets the filename, the path and the derivative list
\* of every row with the given uuid to the values given; it leaves the id and
\* the uuid of those rows, the number of rows, and every row with another
\* uuid unchanged.
C8_UpdateRewritesRowOfUuid ==
    [][\A u \in RepoUuids, fn \in RepoFilenames, p \in RepoPaths, t \in RepoThumbnails :
          RepoUpdate(u, fn, p, t)
          => /\ Cardinality(images') = Cardinality(images)
             /\ \A r \in images :
                   \E q \in images' :
                      /\ q.id = r.id
                      /\ q.uuid = r.uuid
                      /\ IF r.uuid = u
                           THEN /\ q.filename = fn
                                /\ q.path = p
                                /\ JsonLoads(q.thumbnails) = t
                           ELSE q = r]_vars

\* C8 witness: an update was applied to a row while a row with another uuid
\* and other values is in the table
C8_Witness ==
    /\ response.op = "update"
    /\ \E r, q \in images :
          /\ r.uuid = response.uuid
          /\ q.uuid # response.uuid
          /\ q.path # r.path
          /\ q.filename # r.filename
          /\ q.thumbnails # r.thumbnails

\* C9 as claimed: no two rows of the table have the same uuid.
C9_UuidIsUniqueKey ==
    \A r, q \in images : r.uuid = q.uuid => r = q

\* the size of the picture a row was made from: that of its original as written
SourceOf(r) == (CHOOSE f \in written : f.path = r.path).data

\* C10: the label list a row stores, read back, has one entry "t x height"
\* for each target width t of 1200, 992, 768, 576, in that order, that the
\* source is strictly wider than, followed by "150x150" exactly when the
\* source is wider and higher than 150.
C10_StoredLabels ==
    \A r \in images :
        LET src == SourceOf(r)
            labels == JsonLoads(r.thumbnails)
            scaled == SelectSeq(<<1200, 992, 768, 576>>, LAMBDA t : src.w > t)
            thumb == src.w > 150 /\ src.h > 150
        IN  /\ Len(labels) = Len(scaled) + (IF thumb THEN 1 ELSE 0)
            /\ \A i \in 1..Len(scaled) :
                  /\ Len(labels[i]) = 3
                  /\ labels[i][1] = ToString(scaled[i])
                  /\ labels[i][2] = "x"
            /\ thumb => labels[Len(labels)] = <<"150", "x", "150">>

\* C10 witness: a row made from 1600x1200 with five labels, the thumbnail
\* last, beside a row made from 100x100 with none
C10_Witness ==
    \E r, q \in images :
        /\ SourceOf(r).w = 1600
        /\ SourceOf(r).h = 1200
        /\ Len(JsonLoads(r.thumbnails)) = 5
        /\ JsonLoads(r.thumbnails)[5] = <<"150", "x", "150">>
        /\ SourceOf(q).w = 100
        /\ SourceOf(q).h = 100
        /\ JsonLoads(q.thumbnails) = <<>>

\* round(a / b) of Python 3: to the nearest integer, a tie to the even one
PyRound(a, b) ==
    LET q == a \div b
        r == a % b
    IN  IF 2 * r < b THEN q
        ELSE IF 2 * r > b THEN q + 1
        ELSE IF q % 2 = 0 THEN q ELSE q + 1

\* C11: the height of a scaled variant of a w x h image at target width t,
\* w > t, is round(t * h / w), in the label and in the file name
C11_HeightIsRounded ==
    (response.op = "image_resize" /\ response.image.w > response.new_width) =>
        LET t == response.new_width
            height == PyRound(t * response.image.h, response.image.w)
        IN  /\ response.result.h = height
            /\ response.result.label = <<ToString(t), "x", ToString(height)>>
            /\ response.result.path =
                   Join(StorePath(0), <<Md5Hex(1), "-", ToString(t), "x",
                                        ToString(height), ".", "jpg">>)

\* C12: the crop of image_thumbnail removes floor(d/2) from the start and
\* ceil(d/2) from the end of the longer dimension, d = |w - h|, and nothing
\* from the shorter one; what is left is a square of side min(w, h); 301x150
\* loses 75 on the left and 76 on the right; a square image is not cropped
C12_CropIsCentred ==
    response.op = "image_thumbnail" =>
        LET w == response.image.w
            h == response.image.h
            d == IF w > h THEN w - h ELSE h - w
            box == response.result.box
            \* removed from the start and from the end of each dimension
            left == box[1]
            upper == box[2]
            right == w - box[3]
            lower == h - box[4]
            start == IF w > h THEN left ELSE upper
            end == IF w > h THEN right ELSE lower
        IN  /\ 2 * start <= d /\ d <= 2 * start + 1
            /\ 2 * end >= d /\ d >= 2 * end - 1
            /\ start + end = d
            /\ end - start \in {0, 1}
            /\ w >= h => upper = 0 /\ lower = 0
            /\ w <= h => left = 0 /\ right = 0
            /\ box[3] - box[1] = Min(w, h)
            /\ box[4] - box[2] = Min(w, h)
            /\ (w = 301 /\ h = 150) => left = 75 /\ right = 76
            /\ w = h => box = <<0, 0, w, h>>

C12_Witness ==
    /\ response.op = "image_thumbnail"
    /\ response.image = [w |-> 301, h |-> 150]
    /\ response.result.box = <<75, 0, 225, 150>>

\* the paths in a list of files
PathsOf(files) == {files[i] : i \in 1..Len(files)}

\* C13: for every row an ingestion inserted, the paths that the read and the
\* delete handler derive from the stored path and labels are exactly the
\* paths of the derivative files that ingestion wrote for that record
C13_NamesRoundTrip ==
    \A r \in images :
        LET wrote == {f.path : f \in {g \in written : g.data.uuid = r.uuid}} \ {r.path}
            files == DeleteFiles(r)
            shown == ImageThumbnails(r)
        IN  /\ PathsOf(SubSeq(files, 1, Len(files) - 1)) = wrote
            /\ {shown[i].path : i \in 1..Len(shown)} = wrote
            /\ files[Len(files)] = r.path

C13_Witness ==
    \E r \in images :
        /\ Len(JsonLoads(r.thumbnails)) = 5
        /\ Cardinality({f \in written : f.data.uuid = r.uuid}) = 6

\* C14: an ingestion whose written original cannot be decoded ends with 500;
\* an ingestion that ends with 500 at the decoding or while it generates a
\* derivative leaves the table as it was, and its original stays in the media
\* directory as written, no row naming it
C14_FailedIngestionInsertsNothing ==
    [][task.pc \in {"open", "resize"} =>
          LET original == Join(task.path, task.filename)
          IN  /\ (task.pc = "open" /\ FileAt(media, original).data.w = 0) =>
                     response' = Response("store", 500, task.image_uuid)
              /\ response'.status = 500 =>
                     /\ response' = Response("store", 500, task.image_uuid)
                     /\ task' = Idle
                     /\ images' = images
                     /\ IsFile(media', original)
                     /\ FileAt(media', original) = FileAt(media, original)
                     /\ \A r \in images' :
                            r.path # original /\ r.uuid # task.image_uuid]_vars

C14_Witness ==
    /\ task = Idle
    /\ response.op = "store"
    /\ response.status = 500
    /\ \E f \in media :
          /\ f.data.uuid = response.uuid
          /\ f.data.w = 0
          /\ f.data.whole
          /\ \A r \in images : r.path # f.path /\ r.uuid # response.uuid

StartsWith(text, prefix) ==
    Len(prefix) <= Len(text) /\ SubSeq(text, 1, Len(prefix)) = prefix

\* a text of digits and "/" only
DigitsAndSlashes(text) ==
    \A i \in 1..Len(text) : text[i] \in {"/", "01", "12", "2026", "2027", "2028"}

\* the list has each of its rows once, in ascending order of path, hence of
\* (year, month)
C18_EachOnceInOrder(out) ==
    /\ \A i, j \in 1..Len(out) : i # j => out[i] # out[j]
    /\ \A i, j \in 1..Len(out) :
          i < j =>
            /\ ~PathLess(out[j].path, out[i].path)
            /\ \/ IntOf(out[i].path[1]) < IntOf(out[j].path[1])
               \/ /\ IntOf(out[i].path[1]) = IntOf(out[j].path[1])
                  /\ IntOf(out[i].path[3]) <= IntOf(out[j].path[3])

\* C18 as stated: select_by_path(prefix) returns exactly the rows whose path
\* starts with prefix, each once, in ascending order of path, which for
\* yyyy/mm/name paths is non-decreasing in (year, month); the empty prefix
\* returns every row
C18_SelectByPrefix ==
    response.op = "select_by_path" =>
        LET out == response.rows
            prefix == response.path_like
        IN  /\ {out[i] : i \in 1..Len(out)} =
                   {r \in images : StartsWith(r.path, prefix)}
            /\ C18_EachOnceInOrder(out)
            /\ prefix = <<>> => {out[i] : i \in 1..Len(out)} = images

\* C18 amended: select_by_path(path_like) returns the rows whose path is LIKE
\* path_like followed by %, each once, in ascending order of path, which for
\* yyyy/mm/name paths is non-decreasing in (year, month): every row whose
\* path starts with path_like is among them, and when path_like is made of
\* digits and "/" only they are exactly those rows; the empty path_like
\* returns every row
C18_SelectByPathLike ==
    response.op = "select_by_path" =>
        LET out == response.rows
            path_like == response.path_like
            got == {out[i] : i \in 1..Len(out)}
        IN  /\ got \subseteq images
            /\ {r \in images : StartsWith(r.path, path_like)} \subseteq got
            /\ DigitsAndSlashes(path_like) =>
                   got = {r \in images : StartsWith(r.path, path_like)}
            /\ C18_EachOnceInOrder(out)
            /\ path_like = <<>> => got = images

C18_Witness ==
    /\ response.op = "select_by_path"
    /\ response.path_like = <<>>
    /\ Len(response.rows) = 2
    /\ response.rows[1].id > response.rows[2].id
    /\ PathLess(response.rows[1].path, response.rows[2].path)

\* an ingestion has written its original and has not inserted its row yet
IngestionInProgress == task.pc \in {"open", "resize", "insert"}

\* C15: while an ingestion is in progress, after its original is written and
\* before its row is inserted, the server can handle a read request
C15_ReadServedDuringIngestion ==
    IngestionInProgress =>
        \E image_uuid \in 1..(MaxUploads + 1) : ENABLED HandleImage(image_uuid)

\* the table has a row of the uuid whose original is not in the media directory
RowWithMissingOriginal(image_uuid) ==
    LET img == SelectByUuid(images, image_uuid)
    IN  img # <<>> /\ ~IsFile(media, img[1].path)

\* a handler that starts from the free event loop returns or goes on for
\* image_uuid: the response changes to one of `op` for that uuid
Answers(op, image_uuid) ==
    /\ task.pc = "idle"
    /\ response' # response
    /\ response'.op = op
    /\ response'.uuid = image_uuid

\* a read of a record whose original is missing: not found, nothing changed
C16_ReadIsNotFound(image_uuid) ==
    Answers("image", image_uuid) =>
        /\ response' = Response("image", 404, image_uuid)
        /\ UNCHANGED <<images, media, trash, task>>

\* C16 as stated: when the row exists and its original is missing from the
\* media directory, the read and the delete both return not found at once:
\* the delete moves no file to the trash and does not remove the row
C16_MissingOriginalIsNotFound ==
    [][\A image_uuid \in 1..MaxUploads :
          RowWithMissingOriginal(image_uuid) =>
            /\ C16_ReadIsNotFound(image_uuid)
            /\ Answers("delete", image_uuid) =>
                  /\ response' = Response("delete", 404, image_uuid)
                  /\ UNCHANGED <<images, media, trash, task>>
            /\ (task.pc = "move" /\ task.image_uuid = image_uuid) =>
                  UNCHANGED <<images, media, trash>>]_vars

\* C16 amended: when the row exists and its original is missing, the read
\* returns not found and changes nothing; the delete does not return not
\* found: it goes through the derivatives and the original, moves to the
\* trash each one that is a file, skips the others, then removes the row
\* and redirects
C16_MissingOriginalReadAndDelete ==
    [][\A image_uuid \in 1..MaxUploads :
          RowWithMissingOriginal(image_uuid) =>
            /\ C16_ReadIsNotFound(image_uuid)
            /\ Answers("delete", image_uuid) =>
                  /\ response' = Response("delete", 0, image_uuid)
                  /\ task' = [pc |-> "move", image_uuid |-> image_uuid,
                              files |-> DeleteFiles(SelectByUuid(images, image_uuid)[1])]
                  /\ UNCHANGED <<images, media, trash>>
            /\ (task.pc = "move" /\ task.image_uuid = image_uuid) =>
                  IF task.files = <<>>
                    THEN /\ images' = {r \in images : r.uuid # image_uuid}
                         /\ response' = Response("delete", 302, image_uuid)
                         /\ task' = Idle
                         /\ UNCHANGED <<media, trash>>
                    ELSE LET f == Head(task.files)
                         IN  /\ IF IsFile(media, f)
                                   THEN /\ media' = media \ {FileAt(media, f)}
                                        /\ Trashed(FileAt(media, f)) \in trash'
                                   ELSE UNCHANGED <<media, trash>>
                             /\ task' = [task EXCEPT !.files = Tail(task.files)]
                             /\ UNCHANGED <<images, response>>]_vars

\* the path has the "-" that precedes a size label
NamesDerivative(path) == \E i \in 1..Len(path) : path[i] = "-"

\* a delete has ended with the row removed and the derivatives in the
\* trash, the original being neither in the media directory nor in the trash
C16_Witness ==
    /\ task = Idle
    /\ response.op = "delete"
    /\ response.status = 302
    /\ \A r \in images : r.uuid # response.uuid
    /\ \E f \in written :
          /\ f.data.uuid = response.uuid
          /\ ~NamesDerivative(f.path)
          /\ f \notin media
          /\ Trashed(f) \notin trash
    /\ \E f \in written :
          /\ f.data.uuid = response.uuid
          /\ NamesDerivative(f.path)
          /\ Trashed(f) \in trash

\* C17: a derivative named by a row and missing from the media directory is
\* skipped at read time: the read of a record whose original is there
\* succeeds, and every derivative it hands to the template is a file; the
\* same for every record listed by the explorer for a month
C17_ReadSkipsMissingDerivatives ==
    [][/\ \A image_uuid \in 1..MaxUploads :
            LET img == SelectByUuid(images, image_uuid)
            IN  (img # <<>> /\ IsFile(media, img[1].path)
                    /\ Answers("image", image_uuid)) =>
                  /\ response'.status = 200
                  /\ \A i \in 1..Len(response'.thumbnails) :
                        IsFile(media, response'.thumbnails[i].path)
       /\ (task.pc = "idle" /\ response' # response /\ response'.op = "explorer"
              /\ response'.month # 0) =>
            \A n \in 1..Len(response'.files) :
                \A i \in 1..Len(response'.files[n].thumbnails) :
                    IsFile(media, response'.files[n].thumbnails[i].path)]_vars

\* C19: of the delete requests for one uuid that are suspended together, at
\* most one is inside its body at a time; if the uuid had its row when a
\* request arrived, one request moves the files and removes the row, and
\* every other one finds no row, answers not found and moves nothing; no
\* file is moved by two requests
C19_ConcurrentDeletesDoNotInterleave ==
    /\ Cardinality(Running) <= 1
    /\ \A image_uuid \in 1..MaxUploads :
          LET deletes == {q \in requests : q.uuid = image_uuid}
              won == {q \in deletes : q.status = 302}
              lost == {q \in deletes : q.pc = "done" /\ q.status # 302}
          IN  /\ Cardinality(won) <= 1
              /\ \A p, q \in deletes : p # q => p.moved \cap q.moved = {}
              /\ \A q \in lost :
                    /\ q.status = 404
                    /\ q.moved = {}
                    /\ q.row => won # {}
              /\ \A q \in won :
                    /\ q.moved = {f.path : f \in {g \in written : g.data.uuid = image_uuid}}
                    /\ \A f \in written :
                          f.data.uuid = image_uuid => Trashed(f) \in trash
                    /\ \A r \in images : r.uuid # image_uuid
              /\ ((\E q \in deletes : q.row) /\ \A q \in deletes : q.pc = "done") =>
                    Cardinality(won) = 1

\* two requests for the uuid of a record of six files have been suspended
\* together and both have returned
C19_Witness ==
    \E p, q \in requests :
        /\ p # q
        /\ p.uuid = q.uuid
        /\ p.row /\ q.row
        /\ p.status = 302 /\ Cardinality(p.moved) = 6
        /\ q.status = 404

\* a delete of image_uuid has just listed the files of its row, some of them
\* are in the trash already, and no storage error is left to come
RetryStarted(image_uuid) ==
    /\ task.pc = "move"
    /\ task.image_uuid = image_uuid
    /\ faults = MaxFaults
    /\ \E r \in images :
          r.uuid = image_uuid /\ Len(task.files) = Cardinality(RecordPaths(r))
    /\ \E f \in written : f.data.uuid = image_uuid /\ Trashed(f) \in trash

\* the delete of image_uuid has returned its redirect: no row, and every
\* file of the record in the trash and none in the media directory
DeleteCompleted(image_uuid) ==
    /\ task = Idle
    /\ response = Response("delete", 302, image_uuid)
    /\ \A r \in images : r.uuid # image_uuid
    /\ \A f \in written :
          f.data.uuid = image_uuid => Trashed(f) \in trash /\ f \notin media

\* C20: a delete that ends with a storage error leaves the row in the table,
\* and the row is removed only by the step that follows the whole loop; a
\* retry of the delete with no further storage error completes: the files
\* left are moved, the row is removed
C20_AbortedDeleteCanBeRetried ==
    /\ [][task.pc = "move" =>
             /\ response'.status = 500 =>
                   /\ images' = images
                   /\ \E r \in images' : r.uuid = task.image_uuid
             /\ images' # images =>
                   /\ task.files = <<>>
                   /\ response' = Response("delete", 302, task.image_uuid)]_vars
    /\ \A image_uuid \in 1..MaxUploads :
          RetryStarted(image_uuid) ~> DeleteCompleted(image_uuid)

\* a retry has started after a delete that moved the first four files of a
\* record of six and then failed
C20_Witness ==
    /\ RetryStarted(1)
    /\ Len(task.files) = 6
    /\ Cardinality({f \in written : f.data.uuid = 1 /\ Trashed(f) \in trash}) = 4
    /\ Cardinality({f \in written : f.data.uuid = 1 /\ f \in media}) = 2

====
